---- MODULE Spec2Model ----
(***************************************************************************)
(* CroAviation backend (src/index.js): the Express request handlers over   *)
(* the MongoDB collections users and planes, the JWT gate and the token    *)
(* endpoints.  Every handler is cut at its awaits: the synchronous prefix  *)
(* of a handler (the gate, the validation) runs when the request is        *)
(* received, and every store operation is one atomic step, so that         *)
(* handlers of concurrent requests interleave exactly at the awaits.       *)
(* Time is counted in hours.                                               *)
(***************************************************************************)
EXTENDS Integers, Sequences, FiniteSets, TLC

VARIABLES users, planes, nextId, now, ticks, nreq, issued, reqs, resp, server

vars == <<users, planes, nextId, now, ticks, nreq, issued, reqs, resp, server>>

---------------------------------------------------------------------------
(* Bounds of the model *)

\* handlers that may be in flight at once
MaxInFlight == 2
\* requests accepted in one run
MaxRequests == 3
\* clock advances in one run
MaxTicks == 2

(* Program constants, in hours *)
\* expiresIn: "1h"
AccessTTL == 1
\* expiresIn: "7d"
RefreshTTL == 168
\* bcrypt.hash(password, 10)
BcryptCost == 10

---------------------------------------------------------------------------
(* Input alphabets *)

Emails == {"a@x.com", "b@x.com"}
Passwords == {"pw1", "pw2"}
\* a body field that is absent (JavaScript undefined)
Missing == "<undefined>"
\* how long a client may wait between two requests: an hour, or the rest of a week
Waits == {AccessTTL, RefreshTTL - AccessTTL}

\* process.env.JWT_SECRET, and a key the server does not hold
JWT_SECRET == "secret"
OtherKey == "other"

---------------------------------------------------------------------------
(* bcryptjs *)

\* bcrypt.hash(password, 10): a one-way hash; a non-string argument is rejected
bcryptHash(password) ==
    IF password = Missing
    THEN [err |-> "Illegal arguments", alg |-> "", cost |-> 0, of |-> ""]
    ELSE [err |-> "", alg |-> "bcrypt", cost |-> BcryptCost, of |-> password]

\* bcrypt.compare(password, hash): "match", "nomatch", or "throw" on a
\* non-string password (Error: Illegal arguments: undefined, string)
bcryptCompare(password, hash) ==
    IF password = Missing THEN "throw"
    ELSE IF hash.alg = "bcrypt" /\ hash.of = password THEN "match"
    ELSE "nomatch"

---------------------------------------------------------------------------
(* jsonwebtoken *)

NoTime == -1

\* token strings that are no JWT
UndefinedTok == [kind |-> "undefined", email |-> "", iat |-> 0, exp |-> 0, key |-> ""]
EmptyTok == [kind |-> "empty", email |-> "", iat |-> 0, exp |-> 0, key |-> ""]
GarbageTok == [kind |-> "garbage", email |-> "", iat |-> 0, exp |-> 0, key |-> ""]
BearerWord == [kind |-> "garbage", email |-> "Bearer", iat |-> 0, exp |-> 0, key |-> ""]

\* a well-formed JWT for e that never expires within a run, signed with a foreign key
ForgedTok(e) ==
    [kind |-> "jwt", email |-> e, iat |-> 0, exp |-> 1000000, key |-> OtherKey]

\* (variant: expiresIn is ignored, every token gets the long lifetime)
jwtSign_FixedLifetime(email, secret, expiresIn, t) ==
    [kind |-> "jwt", email |-> email, iat |-> t, exp |-> t + RefreshTTL, key |-> secret]

\* (variant: the payload is signed without the email claim)
jwtSign_NoEmail(email, secret, expiresIn, t) ==
    [kind |-> "jwt", email |-> "", iat |-> t, exp |-> t + expiresIn, key |-> secret]

\* jwt.sign({ email }, secret, { expiresIn }) at time t: iat = t, exp = t + expiresIn
jwtSign(email, secret, expiresIn, t) ==
    [kind |-> "jwt", email |-> email, iat |-> t, exp |-> t + expiresIn, key |-> secret]

\* (variant: a token is still accepted at its expiry instant)
jwtVerify_LateExpiry(token, secret, t) ==
    IF token.kind # "jwt" \/ token.key # secret
    THEN [err |-> "JsonWebTokenError", expiredAt |-> NoTime, email |-> ""]
    ELSE IF t > token.exp
    THEN [err |-> "TokenExpiredError", expiredAt |-> token.exp, email |-> ""]
    ELSE [err |-> "", expiredAt |-> NoTime, email |-> token.email]

\* (variant: the signature is not checked against the secret)
jwtVerify_AnyKey(token, secret, t) ==
    IF token.kind # "jwt"
    THEN [err |-> "JsonWebTokenError", expiredAt |-> NoTime, email |-> ""]
    ELSE IF t >= token.exp
    THEN [err |-> "TokenExpiredError", expiredAt |-> token.exp, email |-> ""]
    ELSE [err |-> "", expiredAt |-> NoTime, email |-> token.email]

\* (variant: verification consults the store, a token of a deleted account fails)
jwtVerify_Revoked(token, secret, t) ==
    IF token.kind # "jwt" \/ token.key # secret
    THEN [err |-> "JsonWebTokenError", expiredAt |-> NoTime, email |-> ""]
    ELSE IF t >= token.exp
    THEN [err |-> "TokenExpiredError", expiredAt |-> token.exp, email |-> ""]
    ELSE IF ~\E u \in users : u.email = token.email
    THEN [err |-> "JsonWebTokenError", expiredAt |-> NoTime, email |-> ""]
    ELSE [err |-> "", expiredAt |-> NoTime, email |-> token.email]

\* jwt.verify(token, secret) at time t: the decoded payload, or the error.
\* The signature is checked before the expiry; a token is expired from exp on.
jwtVerify(token, secret, t) ==
    IF token.kind # "jwt"
    THEN [err |-> "JsonWebTokenError", expiredAt |-> NoTime, email |-> ""]
    ELSE IF token.key # secret
    THEN [err |-> "JsonWebTokenError", expiredAt |-> NoTime, email |-> ""]
    ELSE IF t >= token.exp
    THEN [err |-> "TokenExpiredError", expiredAt |-> token.exp, email |-> ""]
    ELSE [err |-> "", expiredAt |-> NoTime, email |-> token.email]

\* !token: undefined and the empty string are falsy
Falsy(token) == token.kind \in {"undefined", "empty"}

---------------------------------------------------------------------------
(* The Authorization header, as its space-separated parts; <<>> is no header *)

NoHeader == <<>>

\* authHeader && authHeader.split(' ')[1]
HeaderToken(authHeader) ==
    IF Len(authHeader) = 0 THEN UndefinedTok
    ELSE IF Len(authHeader) >= 2 THEN authHeader[2]
    ELSE UndefinedTok

\* (variant: no TokenExpiredError branch, every failure is 'Invalid token')
authenticateToken_NoExpiredBranch(authHeader, t) ==
    LET token == HeaderToken(authHeader)
        v == jwtVerify(token, JWT_SECRET, t)
    IN  IF Falsy(token)
        THEN [next |-> FALSE, status |-> 401, message |-> "No token provided",
              expiredAt |-> NoTime, user |-> ""]
        ELSE IF v.err # ""
        THEN [next |-> FALSE, status |-> 403, message |-> "Invalid token",
              expiredAt |-> NoTime, user |-> ""]
        ELSE [next |-> TRUE, status |-> 0, message |-> "",
              expiredAt |-> NoTime, user |-> v.email]

\* (variant: a rejection is sent without return, next() runs all the same)
authenticateToken_AlwaysNext(authHeader, t) ==
    LET token == HeaderToken(authHeader)
        v == jwtVerify(token, JWT_SECRET, t)
    IN  [next |-> TRUE, status |-> 0, message |-> "", expiredAt |-> NoTime,
         user |-> IF Falsy(token) THEN "" ELSE v.email]

\* authenticateToken: the response it sends, or next() with req.user set
authenticateToken(authHeader, t) ==
    LET token == HeaderToken(authHeader)
        v == jwtVerify(token, JWT_SECRET, t)
    IN  IF Falsy(token)
        THEN [next |-> FALSE, status |-> 401, message |-> "No token provided",
              expiredAt |-> NoTime, user |-> ""]
        ELSE IF v.err = "TokenExpiredError"
        THEN [next |-> FALSE, status |-> 403, message |-> "Token expired",
              expiredAt |-> v.expiredAt, user |-> ""]
        ELSE IF v.err # ""
        THEN [next |-> FALSE, status |-> 403, message |-> "Invalid token",
              expiredAt |-> NoTime, user |-> ""]
        ELSE [next |-> TRUE, status |-> 0, message |-> "",
              expiredAt |-> NoTime, user |-> v.email]

---------------------------------------------------------------------------
(* The store: collections users and planes *)

\* (variant: the collection has no unique index, every insert goes through)
UniqueIndexAllows_NoIndex(email) == TRUE

\* the unique index on users.email lets insertOne add a document with this email
UniqueIndexAllows(email) == ~\E u \in users : u.email = email

\* db.collection("users").findOne({ email }): whether a document matches
UserExists(email) == \E u \in users : u.email = email

\* db.collection("users").findOne({ email }): the matching document
findOneUser(email) == CHOOSE u \in users : u.email = email

\* (variant: the filter is dropped, every document is incremented)
incNumberOfPlanes_Everyone(email) ==
    {[u EXCEPT !.numberOfPlanes = u.numberOfPlanes + 1] : u \in users}

\* updateOne({ email }, { $inc: { numberOfPlanes: 1 } }): one matching document
\* is updated in place, atomically; no match changes nothing
incNumberOfPlanes(email) ==
    IF UserExists(email)
    THEN LET u == findOneUser(email)
         IN  (users \ {u}) \cup {[u EXCEPT !.numberOfPlanes = u.numberOfPlanes + 1]}
    ELSE users

\* (variant: the update replaces the document instead of using $set)
setProfileImage_Replace(email, path) ==
    IF UserExists(email)
    THEN LET u == findOneUser(email)
         IN  (users \ {u}) \cup {[u EXCEPT !.profileImage = path, !.username = ""]}
    ELSE users

\* updateOne({ email }, { $set: { profileImage } })
setProfileImage(email, path) ==
    IF UserExists(email)
    THEN LET u == findOneUser(email)
         IN  (users \ {u}) \cup {[u EXCEPT !.profileImage = path]}
    ELSE users

\* (variant: deleteMany({}) removes the documents of every owner)
deleteManyPlanes_Everyone(userId) == {}

\* (variant: the documents of the owner are left in place)
deleteManyPlanes_None(userId) == planes

\* db.collection("planes").deleteMany({ userId })
deleteManyPlanes(userId) == {p \in planes : p.userId # userId}

\* db.collection("users").deleteOne({ email }): at most one document goes
deleteOneUser(email) ==
    IF UserExists(email) THEN users \ {findOneUser(email)} ELSE users

---------------------------------------------------------------------------
(* The airport filter: new RegExp(`^${airport}$`, 'i') *)

\* the characters of the strings that occur as airport values and parameters
Chars(s) ==
    CASE s = "LDZA"    -> <<"L", "D", "Z", "A">>
      [] s = "ldza"    -> <<"l", "d", "z", "a">>
      [] s = "LDSP"    -> <<"L", "D", "S", "P">>
      [] s = "LDDU"    -> <<"L", "D", "D", "U">>
      [] s = "LDZ"     -> <<"L", "D", "Z">>
      [] s = "L.ZA"    -> <<"L", ".", "Z", "A">>
      [] s = ".*"      -> <<".", "*">>
      [] s = "("       -> <<"(">>
      [] s = "LDZ\\w"  -> <<"L", "D", "Z", "\\", "w">>
      [] s = "LDZ\\W"  -> <<"L", "D", "Z", "\\", "W">>
      [] OTHER         -> <<>>

\* the case folding of flag 'i'
Lower(c) ==
    CASE c = "L" -> "l" [] c = "D" -> "d" [] c = "Z" -> "z" [] c = "A" -> "a"
      [] c = "S" -> "s" [] c = "P" -> "p" [] c = "U" -> "u" [] c = "W" -> "w"
      [] OTHER -> c

\* the characters of class \w among the ones above
WordChars ==
    {"L", "D", "Z", "A", "S", "P", "U", "W", "l", "d", "z", "a", "s", "p", "u", "w"}

\* the pattern starts with an atom: one character, or a backslash and the next
AtomLen(p) == IF Head(p) = "\\" /\ Len(p) >= 2 THEN 2 ELSE 1
AfterAtom(p) == SubSeq(p, AtomLen(p) + 1, Len(p))
Starred(p) == AfterAtom(p) # <<>> /\ Head(AfterAtom(p)) = "*"

\* the first atom of the pattern accepts the character c
AtomMatches(p, c) ==
    IF AtomLen(p) = 2
    THEN IF p[2] = "w" THEN c \in WordChars
         ELSE IF p[2] = "W" THEN c \notin WordChars
         ELSE p[2] = c
    ELSE IF Head(p) = "." THEN TRUE
    ELSE Lower(Head(p)) = Lower(c)

\* the pattern, anchored at both ends, matches the whole of s
RECURSIVE Matches(_, _)
Matches(p, s) ==
    IF p = <<>> THEN s = <<>>
    ELSE IF Starred(p)
    THEN \/ Matches(Tail(AfterAtom(p)), s)
         \/ (s # <<>> /\ AtomMatches(p, Head(s)) /\ Matches(p, Tail(s)))
    ELSE s # <<>> /\ AtomMatches(p, Head(s)) /\ Matches(AfterAtom(p), Tail(s))

\* new RegExp throws SyntaxError: a group that is never closed, or a
\* quantifier with nothing to repeat
SyntaxError(p) ==
    \/ (p # <<>> /\ Head(p) = "*")
    \/ \E i \in 1..Len(p) :
          /\ p[i] = "(" /\ (i = 1 \/ p[i - 1] # "\\")
          /\ \A j \in (i + 1)..Len(p) : p[j] # ")"

\* { airport: new RegExp(`^${param}$`, 'i') } selects a document with this value
RegExpTest(param, value) == Matches(Chars(param), Chars(value))

\* planes.find({ airport: <the pattern> }).toArray()
findPlanes(param) == {p \in planes : RegExpTest(param, p.airport)}

\* { ...plane, username: user ? user.username : "Unknown" }
withUsername(plane) ==
    [id |-> plane.id, airport |-> plane.airport, planeModel |-> plane.planeModel,
     airline |-> plane.airline, registration |-> plane.registration,
     userId |-> plane.userId, planeImage |-> plane.planeImage,
     username |-> IF \E u \in users : u.email = plane.userId
                  THEN (CHOOSE u \in users : u.email = plane.userId).username
                  ELSE "Unknown"]

---------------------------------------------------------------------------
(* startServer and the process *)

NoCode == -1

\* the process before startServer has run: db is not assigned
Starting == [pc |-> "connect", db |-> FALSE, code |-> NoCode, sigint |-> "none"]

\* after app.listen
Listening == [pc |-> "listening", db |-> TRUE, code |-> NoCode, sigint |-> "none"]

StartupPcs == {"connect", "index1", "index2", "index3"}

\* (variant: the catch of startServer logs the error and carries on)
StartServerStep_CarryOn(ok) ==
    /\ server.pc \in StartupPcs
    /\ server' = [server EXCEPT
                    !.pc = CASE server.pc = "connect" -> "index1"
                             [] server.pc = "index1"  -> "index2"
                             [] server.pc = "index2"  -> "index3"
                             [] OTHER                 -> "listening",
                    !.db = IF server.pc = "connect" THEN ok ELSE server.db]
    /\ UNCHANGED <<users, planes, nextId, now, ticks, nreq, issued, reqs, resp>>

\* one await of startServer settles: client.connect() (then db is assigned),
\* the three createIndex calls, then app.listen; a rejection is caught and
\* the process exits with code 1
StartServerStep(ok) ==
    /\ server.pc \in StartupPcs
    /\ IF ok
       THEN server' = [server EXCEPT
                         !.pc = CASE server.pc = "connect" -> "index1"
                                  [] server.pc = "index1"  -> "index2"
                                  [] server.pc = "index2"  -> "index3"
                                  [] OTHER                 -> "listening",
                         !.db = TRUE]
       ELSE server' = [server EXCEPT !.pc = "exited", !.code = 1]
    /\ UNCHANGED <<users, planes, nextId, now, ticks, nreq, issued, reqs, resp>>

---------------------------------------------------------------------------
(* Requests in flight, and the response the last step sent *)

Slots == 1..MaxInFlight

NoBody == [airport |-> "", planeModel |-> "", airline |-> "", registration |-> ""]

\* rivals is a history field, read by no handler: the ids of the User documents
\* that other Register requests for the same email created while this one was
\* in flight
IdleReq ==
    [op |-> "idle", pc |-> "idle", username |-> "", email |-> "", password |-> "",
     authHeader |-> NoHeader, gateAt |-> NoTime, user |-> "", body |-> NoBody,
     file |-> "", token |-> UndefinedTok, planeId |-> 0,
     airport |-> "", airline |-> "", found |-> {}, joined |-> {}, userDoc |-> {},
     rivals |-> {}]

NoResp ==
    [op |-> "none", status |-> 0, message |-> "", stage |-> "", req |-> IdleReq,
     token |-> UndefinedTok, refreshToken |-> UndefinedTok, username |-> "",
     expiredAt |-> NoTime, profileImage |-> "", numberOfPlanes |-> 0, planeId |-> 0,
     list |-> {}, database |-> "", err |-> ""]

\* res.status(status).json({ message }) sent by the handler of req
Reply(req, status, message) ==
    [NoResp EXCEPT !.op = req.op, !.status = status, !.message = message,
                   !.stage = "handler", !.req = req]

\* the response authenticateToken sends when it does not call next()
GateReply(req, g) ==
    [NoResp EXCEPT !.op = req.op, !.status = g.status, !.message = g.message,
                   !.stage = "gate", !.req = req, !.expiredAt = g.expiredAt]

\* a request can be accepted into slot r: the lowest free slot is used
CanAccept(r) ==
    /\ server.pc = "listening"
    /\ nreq < MaxRequests
    /\ reqs[r].pc = "idle"
    /\ \A q \in Slots : q < r => reqs[q].pc # "idle"

\* (variant: only an absent field counts, the empty string passes)
Blank_OnlyUndefined(field) == field = Missing

\* (variant: only the empty string counts, an absent field passes)
Blank_OnlyEmpty(field) == field = ""

\* no handler is in flight
Quiescent == \A r \in Slots : reqs[r].pc = "idle"

\* !field of a body string
Blank(field) == field = Missing \/ field = ""

---------------------------------------------------------------------------
(* What clients send *)

RegisterBodies ==
    { <<"A", "a@x.com", "pw1">>, <<"B", "a@x.com", "pw2">>,
      <<"B", "b@x.com", "pw1">>, <<"A", "a@x.com", Missing>> }

LoginBodies == Emails \X (Passwords \cup {Missing})

\* tokens a client can put in a request: the ones the server has issued, a token
\* signed with another key, and a string that is no JWT
HeldTokens == {i.jwt : i \in issued}
ClientTokens == HeldTokens \cup {ForgedTok("a@x.com"), GarbageTok}

\* Authorization headers: none, a scheme alone, "Bearer <token>", and
\* "Bearer  <token>" (two spaces: the second part is the empty string)
AuthHeaders ==
    {NoHeader, <<BearerWord>>}
        \cup {<<BearerWord, t>> : t \in ClientTokens}
        \cup {<<BearerWord, EmptyTok, t>> : t \in HeldTokens}

PlaneBodies ==
    { [airport |-> "LDZA", planeModel |-> "A320", airline |-> "Croatia Airlines",
       registration |-> "9A-CTA"],
      [airport |-> "LDZA", planeModel |-> "A320", airline |-> Missing,
       registration |-> "9A-CTA"] }

\* req.file: none, or the name multer gave the stored upload
Files == {"", "1700000000000-1.jpg"}

\* what a client holds of a response: the token, the response field it came in
\* ("token" or "refreshToken") and the time of the response
Held(use, jwt) == [use |-> use, at |-> now, jwt |-> jwt]

---------------------------------------------------------------------------
(* GET /api/health *)

\* db ? await client.db().admin().ping() : false
ReceiveHealth(r) ==
    /\ CanAccept(r)
    /\ LET req == [IdleReq EXCEPT !.op = "health"]
       IN  IF server.db
           THEN /\ reqs' = [reqs EXCEPT ![r] = [req EXCEPT !.pc = "ping"]]
                /\ resp' = NoResp
           ELSE /\ reqs' = reqs
                /\ resp' = [Reply(req, 200, "OK") EXCEPT !.database = "Disconnected"]
    /\ nreq' = nreq + 1
    /\ UNCHANGED <<users, planes, nextId, now, ticks, issued, server>>

\* the ping resolves ({ ok: 1 }) or rejects
HealthPing(r, ok) ==
    /\ reqs[r].op = "health" /\ reqs[r].pc = "ping"
    /\ resp' = IF ok
               THEN [Reply(reqs[r], 200, "OK") EXCEPT !.database = "Connected"]
               ELSE [Reply(reqs[r], 500, "ERROR")
                       EXCEPT !.database = "Connection failed"]
    /\ reqs' = [reqs EXCEPT ![r] = IdleReq]
    /\ UNCHANGED <<users, planes, nextId, now, ticks, nreq, issued, server>>

---------------------------------------------------------------------------
(* POST /api/register *)

\* the handler up to its first await: the presence check
ReceiveRegister(r, username, email, password) ==
    /\ CanAccept(r)
    /\ LET req == [IdleReq EXCEPT !.op = "register", !.username = username,
                                  !.email = email, !.password = password]
       IN  IF Blank(username) \/ Blank(email) \/ Blank(password)
           THEN /\ resp' = Reply(req, 400, "All fields are required")
                /\ reqs' = reqs
           ELSE /\ resp' = NoResp
                /\ reqs' = [reqs EXCEPT ![r] = [req EXCEPT !.pc = "findOne"]]
    /\ nreq' = nreq + 1
    /\ UNCHANGED <<users, planes, nextId, now, ticks, issued, server>>

\* await findOne({ email }); if (existingUser) return 400
RegisterFindOne(r) ==
    /\ reqs[r].op = "register" /\ reqs[r].pc = "findOne"
    /\ IF UserExists(reqs[r].email)
       THEN /\ resp' = Reply(reqs[r], 400, "Email already in use")
            /\ reqs' = [reqs EXCEPT ![r] = IdleReq]
       ELSE /\ resp' = NoResp
            /\ reqs' = [reqs EXCEPT ![r].pc = "insertOne"]
    /\ UNCHANGED <<users, planes, nextId, now, ticks, nreq, issued, server>>

\* the requests after request r has created the User with identifier id: r is
\* over, and the other Register requests in flight for the same email note it
AfterCreated(r, id) ==
    [q \in Slots |->
        IF q = r THEN IdleReq
        ELSE IF reqs[q].op = "register" /\ reqs[q].email = reqs[r].email
        THEN [reqs[q] EXCEPT !.rivals = @ \cup {id}]
        ELSE reqs[q]]

\* bcrypt.hash, await insertOne(newUser), jwt.sign twice, 201; a duplicate key
\* makes insertOne throw, and the catch answers 500
RegisterInsertOne(r) ==
    /\ reqs[r].op = "register" /\ reqs[r].pc = "insertOne"
    /\ LET req == reqs[r]
           hashedPassword == bcryptHash(req.password)
           newUser == [id |-> nextId, username |-> req.username, email |-> req.email,
                       password |-> hashedPassword, numberOfPlanes |-> 0,
                       profileImage |-> ""]
           token == jwtSign(req.email, JWT_SECRET, AccessTTL, now)
           refreshToken == jwtSign(req.email, JWT_SECRET, RefreshTTL, now)
       IN  IF hashedPassword.err = "" /\ UniqueIndexAllows(req.email)
           THEN /\ users' = users \cup {newUser}
                /\ nextId' = nextId + 1
                /\ issued' = issued \cup {Held("token", token),
                                           Held("refreshToken", refreshToken)}
                /\ resp' = [Reply(req, 201, "Registration successful")
                              EXCEPT !.token = token, !.refreshToken = refreshToken]
                /\ reqs' = AfterCreated(r, nextId)
           ELSE /\ resp' = Reply(req, 500, "Internal server error")
                /\ reqs' = [reqs EXCEPT ![r] = IdleReq]
                /\ UNCHANGED <<users, nextId, issued>>
    /\ UNCHANGED <<planes, now, ticks, nreq, server>>

---------------------------------------------------------------------------
(* POST /api/login *)

\* the handler up to its first await; the body is not checked
ReceiveLogin(r, email, password) ==
    /\ CanAccept(r)
    /\ reqs' = [reqs EXCEPT ![r] = [IdleReq EXCEPT !.op = "login", !.pc = "findOne",
                                                   !.email = email,
                                                   !.password = password]]
    /\ resp' = NoResp
    /\ nreq' = nreq + 1
    /\ UNCHANGED <<users, planes, nextId, now, ticks, issued, server>>

\* await findOne({ email }); if (!user) return 400; the handler then awaits
\* bcrypt.compare with the document it found
LoginFindOne(r) ==
    /\ reqs[r].op = "login" /\ reqs[r].pc = "findOne"
    /\ IF ~UserExists(reqs[r].email)
       THEN /\ resp' = Reply(reqs[r], 400, "Invalid credentials")
            /\ reqs' = [reqs EXCEPT ![r] = IdleReq]
       ELSE /\ resp' = NoResp
            /\ reqs' = [reqs EXCEPT ![r].pc = "compare",
                                    ![r].userDoc = {findOneUser(reqs[r].email)}]
    /\ UNCHANGED <<users, planes, nextId, now, ticks, nreq, issued, server>>

\* bcrypt.compare settles; jwt.sign twice, with the clock of this moment; 200
\* with the username of the document found before
LoginCompare(r) ==
    /\ reqs[r].op = "login" /\ reqs[r].pc = "compare"
    /\ LET req == reqs[r]
           user == CHOOSE u \in req.userDoc : TRUE
           isMatch == bcryptCompare(req.password, user.password)
           token == jwtSign(req.email, JWT_SECRET, AccessTTL, now)
           refreshToken == jwtSign(req.email, JWT_SECRET, RefreshTTL, now)
       IN  IF isMatch = "throw"
           THEN /\ resp' = Reply(req, 500, "Internal server error")
                /\ issued' = issued
           ELSE IF isMatch = "nomatch"
           THEN /\ resp' = Reply(req, 400, "Invalid credentials")
                /\ issued' = issued
           ELSE /\ resp' = [Reply(req, 200, "Login successful")
                              EXCEPT !.token = token,
                                     !.refreshToken = refreshToken,
                                     !.username = user.username]
                /\ issued' = issued \cup {Held("token", token),
                                           Held("refreshToken", refreshToken)}
    /\ reqs' = [reqs EXCEPT ![r] = IdleReq]
    /\ UNCHANGED <<users, planes, nextId, now, ticks, nreq, server>>

---------------------------------------------------------------------------
(* POST /api/refresh-token: synchronous, one step *)

RefreshToken(r, refreshToken) ==
    /\ CanAccept(r)
    /\ LET req == [IdleReq EXCEPT !.op = "refresh", !.token = refreshToken]
           v == jwtVerify(refreshToken, JWT_SECRET, now)
           newAccessToken == jwtSign(v.email, JWT_SECRET, AccessTTL, now)
       IN  IF Falsy(refreshToken)
           THEN /\ resp' = Reply(req, 401, "No refresh token provided")
                /\ issued' = issued
           ELSE IF v.err # ""
           THEN /\ resp' = Reply(req, 403, "Invalid refresh token")
                /\ issued' = issued
           ELSE /\ resp' = [Reply(req, 200, "") EXCEPT !.token = newAccessToken]
                /\ issued' = issued \cup {Held("token", newAccessToken)}
    /\ nreq' = nreq + 1
    /\ UNCHANGED <<users, planes, nextId, now, ticks, reqs, server>>

---------------------------------------------------------------------------
(* The gated routes: authenticateToken runs first, the handler after next() *)

\* app.<method>(path, authenticateToken, ..., handler): the gate on arrival
ReceiveGated(r, op, pc0, authHeader, body, file) ==
    /\ CanAccept(r)
    /\ LET g == authenticateToken(authHeader, now)
           req == [IdleReq EXCEPT !.op = op, !.authHeader = authHeader,
                                  !.gateAt = now, !.user = g.user,
                                  !.body = body, !.file = file]
       IN  IF g.next
           THEN /\ reqs' = [reqs EXCEPT ![r] = [req EXCEPT !.pc = pc0]]
                /\ resp' = NoResp
           ELSE /\ reqs' = reqs
                /\ resp' = GateReply(req, g)
    /\ nreq' = nreq + 1
    /\ UNCHANGED <<users, planes, nextId, now, ticks, issued, server>>

(* GET /api/profile *)
ReceiveProfile(r, authHeader) ==
    ReceiveGated(r, "profile", "findOne", authHeader, NoBody, "")

\* await findOne({ email: req.user.email }); 404 or the profile
ProfileFindOne(r) ==
    /\ reqs[r].op = "profile" /\ reqs[r].pc = "findOne"
    /\ IF ~UserExists(reqs[r].user)
       THEN resp' = Reply(reqs[r], 404, "User not found")
       ELSE LET user == findOneUser(reqs[r].user)
            IN  resp' = [Reply(reqs[r], 200, "")
                           EXCEPT !.username = user.username,
                                  !.profileImage = user.profileImage,
                                  !.numberOfPlanes = user.numberOfPlanes]
    /\ reqs' = [reqs EXCEPT ![r] = IdleReq]
    /\ UNCHANGED <<users, planes, nextId, now, ticks, nreq, issued, server>>

(* POST /api/add-plane *)
ReceiveAddPlane(r, authHeader, body, file) ==
    ReceiveGated(r, "add-plane", "insertOne", authHeader, body, file)

\* (variant: the 400 is sent without return, the handler goes on to insert)
AddPlaneInsertOne_NoReturn(r) ==
    /\ reqs[r].op = "add-plane" /\ reqs[r].pc = "insertOne"
    /\ LET req == reqs[r]
           b == req.body
           planeData == [id |-> nextId, airport |-> b.airport,
                         planeModel |-> b.planeModel, airline |-> b.airline,
                         registration |-> b.registration, userId |-> req.user,
                         planeImage |-> ""]
       IN  /\ resp' = IF Blank(b.airport) \/ Blank(b.planeModel) \/ Blank(b.airline)
                         \/ Blank(b.registration)
                      THEN Reply(req, 400, "Required fields missing")
                      ELSE NoResp
           /\ planes' = planes \cup {planeData}
           /\ nextId' = nextId + 1
           /\ reqs' = [reqs EXCEPT ![r].pc = "updateOne", ![r].planeId = nextId]
    /\ UNCHANGED <<users, now, ticks, nreq, issued, server>>

\* the presence check, then await planes.insertOne(planeData)
AddPlaneInsertOne(r) ==
    /\ reqs[r].op = "add-plane" /\ reqs[r].pc = "insertOne"
    /\ LET req == reqs[r]
           b == req.body
           planeData == [id |-> nextId, airport |-> b.airport,
                         planeModel |-> b.planeModel, airline |-> b.airline,
                         registration |-> b.registration, userId |-> req.user,
                         planeImage |-> IF req.file # ""
                                        THEN "/uploads/" \o req.file ELSE ""]
       IN  IF Blank(b.airport) \/ Blank(b.planeModel) \/ Blank(b.airline)
              \/ Blank(b.registration)
           THEN /\ resp' = Reply(req, 400, "Required fields missing")
                /\ reqs' = [reqs EXCEPT ![r] = IdleReq]
                /\ UNCHANGED <<planes, nextId>>
           ELSE /\ planes' = planes \cup {planeData}
                /\ nextId' = nextId + 1
                /\ reqs' = [reqs EXCEPT ![r].pc = "updateOne", ![r].planeId = nextId]
                /\ resp' = NoResp
    /\ UNCHANGED <<users, now, ticks, nreq, issued, server>>

\* await users.updateOne({ email: userId }, { $inc: { numberOfPlanes: 1 } }); 201
AddPlaneUpdateOne(r) ==
    /\ reqs[r].op = "add-plane" /\ reqs[r].pc = "updateOne"
    /\ users' = incNumberOfPlanes(reqs[r].user)
    /\ resp' = [Reply(reqs[r], 201, "Plane added successfully")
                  EXCEPT !.planeId = reqs[r].planeId]
    /\ reqs' = [reqs EXCEPT ![r] = IdleReq]
    /\ UNCHANGED <<planes, nextId, now, ticks, nreq, issued, server>>

(* POST /api/upload-profile-image *)
ReceiveUpload(r, authHeader, file) ==
    ReceiveGated(r, "upload-profile-image", "updateOne", authHeader, NoBody, file)

\* if (!req.file) 400; await users.updateOne({ email }, { $set: { profileImage } })
UploadUpdateOne(r) ==
    /\ reqs[r].op = "upload-profile-image" /\ reqs[r].pc = "updateOne"
    /\ LET relativePath == "/uploads/" \o reqs[r].file
       IN  IF reqs[r].file = ""
           THEN /\ resp' = Reply(reqs[r], 400, "No image uploaded")
                /\ users' = users
           ELSE /\ users' = setProfileImage(reqs[r].user, relativePath)
                /\ resp' = [Reply(reqs[r], 200, "Profile image uploaded successfully")
                              EXCEPT !.profileImage = relativePath]
    /\ reqs' = [reqs EXCEPT ![r] = IdleReq]
    /\ UNCHANGED <<planes, nextId, now, ticks, nreq, issued, server>>

(* DELETE /api/delete-account *)
ReceiveDelete(r, authHeader) ==
    ReceiveGated(r, "delete-account", "deleteMany", authHeader, NoBody, "")

\* await planes.deleteMany({ userId })
DeleteAccountDeleteMany(r) ==
    /\ reqs[r].op = "delete-account" /\ reqs[r].pc = "deleteMany"
    /\ planes' = deleteManyPlanes(reqs[r].user)
    /\ reqs' = [reqs EXCEPT ![r].pc = "deleteOne"]
    /\ resp' = NoResp
    /\ UNCHANGED <<users, nextId, now, ticks, nreq, issued, server>>

\* await users.deleteOne({ email: userId }); 200
DeleteAccountDeleteOne(r) ==
    /\ reqs[r].op = "delete-account" /\ reqs[r].pc = "deleteOne"
    /\ users' = deleteOneUser(reqs[r].user)
    /\ resp' = Reply(reqs[r], 200, "Account deleted successfully")
    /\ reqs' = [reqs EXCEPT ![r] = IdleReq]
    /\ UNCHANGED <<planes, nextId, now, ticks, nreq, issued, server>>

---------------------------------------------------------------------------
(* GET /api/planes/:airport *)

\* parameters of the list routes: the code of an airport in either case, a
\* prefix of one, a code with no records, and strings with pattern characters
ListParams ==
    {"LDZA", "ldza", "LDZ", "LDDU", "L.ZA", ".*", "(", "LDZ\\w", "LDZ\\W"}

\* the handler up to its first await: new RegExp throws inside the try
ReceiveList(r, airport) ==
    /\ CanAccept(r)
    /\ LET req == [IdleReq EXCEPT !.op = "list", !.airport = airport]
       IN  IF SyntaxError(Chars(airport))
           THEN /\ resp' = Reply(req, 500, "Error fetching planes")
                /\ reqs' = reqs
           ELSE /\ resp' = NoResp
                /\ reqs' = [reqs EXCEPT ![r] = [req EXCEPT !.pc = "find"]]
    /\ nreq' = nreq + 1
    /\ UNCHANGED <<users, planes, nextId, now, ticks, issued, server>>

\* await planes.find(...).toArray(); Promise.all over no records resolves to []
ListFind(r) ==
    /\ reqs[r].op = "list" /\ reqs[r].pc = "find"
    /\ LET found == findPlanes(reqs[r].airport)
       IN  IF found = {}
           THEN /\ resp' = Reply(reqs[r], 200, "")
                /\ reqs' = [reqs EXCEPT ![r] = IdleReq]
           ELSE /\ resp' = NoResp
                /\ reqs' = [reqs EXCEPT ![r].pc = "findOne", ![r].found = found]
    /\ UNCHANGED <<users, planes, nextId, now, ticks, nreq, issued, server>>

\* one of the lookups started by planes.map resolves; after the last one
\* Promise.all resolves and the joined records are sent
ListLookup(r, plane) ==
    /\ reqs[r].op = "list" /\ reqs[r].pc = "findOne"
    /\ plane \in reqs[r].found
    /\ ~\E j \in reqs[r].joined : j.id = plane.id
    /\ LET planesWithUsers == reqs[r].joined \cup {withUsername(plane)}
       IN  IF Cardinality(planesWithUsers) = Cardinality(reqs[r].found)
           THEN /\ resp' = [Reply(reqs[r], 200, "") EXCEPT !.list = planesWithUsers]
                /\ reqs' = [reqs EXCEPT ![r] = IdleReq]
           ELSE /\ resp' = NoResp
                /\ reqs' = [reqs EXCEPT ![r].joined = planesWithUsers]
    /\ UNCHANGED <<users, planes, nextId, now, ticks, nreq, issued, server>>

---------------------------------------------------------------------------
(* Paths no route of index.js matches: the router answers 404 *)

NotFound(req) ==
    [NoResp EXCEPT !.op = req.op, !.status = 404, !.stage = "router", !.req = req]

\* GET /api/airlines/:airport
ReceiveAirlines(r, airport) ==
    /\ CanAccept(r)
    /\ resp' = NotFound([IdleReq EXCEPT !.op = "airlines", !.airport = airport])
    /\ nreq' = nreq + 1
    /\ UNCHANGED <<users, planes, nextId, now, ticks, issued, reqs, server>>

\* GET /api/planes/:airport/:airline
ReceiveAirlinePlanes(r, airport, airline) ==
    /\ CanAccept(r)
    /\ resp' = NotFound([IdleReq EXCEPT !.op = "airline-planes",
                                        !.airport = airport, !.airline = airline])
    /\ nreq' = nreq + 1
    /\ UNCHANGED <<users, planes, nextId, now, ticks, issued, reqs, server>>

---------------------------------------------------------------------------
(* A store call rejects, the process is stopped *)

\* (variant: the catch block sends the text of the error)
CatchMessage_Leaks(op) == "MongoNetworkError: connection closed"

\* the message of the catch block of each handler
CatchMessage(op) ==
    CASE op = "add-plane"            -> "Error adding plane"
      [] op = "upload-profile-image" -> "Error uploading profile image"
      [] op = "delete-account"       -> "Error deleting account"
      [] op = "list"                 -> "Error fetching planes"
      [] OTHER                       -> "Internal server error"

\* the request awaits a call of the store: not so while bcrypt.compare or the
\* ping of the health route is pending, nor when the handler that is about to
\* run returns 400 before it calls the store
AwaitsStore(req) ==
    /\ req.pc \notin {"idle", "compare", "ping"}
    /\ ~(/\ req.op = "add-plane" /\ req.pc = "insertOne"
         /\ (Blank(req.body.airport) \/ Blank(req.body.planeModel)
             \/ Blank(req.body.airline) \/ Blank(req.body.registration)))
    /\ ~(req.op = "upload-profile-image" /\ req.pc = "updateOne" /\ req.file = "")

\* the store call a request awaits rejects, the catch block answers 500; a
\* call on one document has had no effect, a deleteMany may have removed
\* some of the documents (gone) before it failed
StoreFails(r, gone) ==
    /\ AwaitsStore(reqs[r])
    /\ gone \subseteq (IF reqs[r].pc = "deleteMany"
                       THEN {p \in planes : p.userId = reqs[r].user}
                       ELSE {})
    /\ planes' = planes \ gone
    /\ resp' = [Reply(reqs[r], 500, CatchMessage(reqs[r].op))
                  EXCEPT !.err = "MongoNetworkError"]
    /\ reqs' = [reqs EXCEPT ![r] = IdleReq]
    /\ UNCHANGED <<users, nextId, now, ticks, nreq, issued, server>>

\* SIGINT arrives: the handler starts await client.close(); until that
\* settles the process goes on serving
Sigint ==
    /\ server.pc # "exited" /\ server.sigint = "none"
    /\ server' = [server EXCEPT !.sigint = "closing"]
    /\ resp' = NoResp
    /\ UNCHANGED <<users, planes, nextId, now, ticks, nreq, issued, reqs>>

\* client.close() settles: process.exit(0), or process.exit(1) from the catch
\* when it rejected; the requests in flight get no answer
ProcessExit(ok) ==
    /\ server.pc # "exited" /\ server.sigint = "closing"
    /\ server' = [server EXCEPT !.pc = "exited", !.code = IF ok THEN 0 ELSE 1]
    /\ reqs' = [r \in Slots |-> IdleReq]
    /\ resp' = NoResp
    /\ UNCHANGED <<users, planes, nextId, now, ticks, nreq, issued>>

---------------------------------------------------------------------------
(* Time passes between two steps *)

Tick(d) ==
    /\ ticks < MaxTicks
    /\ now' = now + d
    /\ ticks' = ticks + 1
    /\ resp' = NoResp
    /\ UNCHANGED <<users, planes, nextId, nreq, issued, reqs, server>>

---------------------------------------------------------------------------
(* The service after startServer: connected, the unique index on users.email
   created, both collections empty, listening *)

Init ==
    /\ users = {}
    /\ planes = {}
    /\ nextId = 1
    /\ now = 0
    /\ ticks = 0
    /\ nreq = 0
    /\ issued = {}
    /\ reqs = [r \in Slots |-> IdleReq]
    /\ resp = NoResp
    /\ server = Listening

Next ==
    \/ \E r \in Slots, b \in RegisterBodies : ReceiveRegister(r, b[1], b[2], b[3])
    \/ \E r \in Slots : RegisterFindOne(r)
    \/ \E r \in Slots : RegisterInsertOne(r)
    \/ \E r \in Slots, b \in LoginBodies : ReceiveLogin(r, b[1], b[2])
    \/ \E r \in Slots : LoginFindOne(r)
    \/ \E r \in Slots : LoginCompare(r)
    \/ \E r \in Slots, t \in ClientTokens \cup {UndefinedTok} : RefreshToken(r, t)
    \/ \E r \in Slots, h \in AuthHeaders : ReceiveProfile(r, h)
    \/ \E r \in Slots : ProfileFindOne(r)
    \/ \E r \in Slots, h \in AuthHeaders, b \in PlaneBodies : ReceiveAddPlane(r, h, b, "")
    \/ \E r \in Slots : AddPlaneInsertOne(r)
    \/ \E r \in Slots : AddPlaneUpdateOne(r)
    \/ \E r \in Slots, h \in AuthHeaders, f \in Files : ReceiveUpload(r, h, f)
    \/ \E r \in Slots : UploadUpdateOne(r)
    \/ \E r \in Slots, h \in AuthHeaders : ReceiveDelete(r, h)
    \/ \E r \in Slots : DeleteAccountDeleteMany(r)
    \/ \E r \in Slots : DeleteAccountDeleteOne(r)
    \/ \E d \in Waits : Tick(d)

Spec == Init /\ [][Next]_vars

---------------------------------------------------------------------------
(* The service in use: two registered users with their tokens, three planes *)

SeedUser(id, username, email, password, n) ==
    [id |-> id, username |-> username, email |-> email,
     password |-> bcryptHash(password), numberOfPlanes |-> n, profileImage |-> ""]

SeedPlane(id, airport, airline, registration, userId) ==
    [id |-> id, airport |-> airport, planeModel |-> "A320", airline |-> airline,
     registration |-> registration, userId |-> userId, planeImage |-> ""]

SeedTokens(email) ==
    { [use |-> "token", at |-> 0, jwt |-> jwtSign(email, JWT_SECRET, AccessTTL, 0)],
      [use |-> "refreshToken", at |-> 0,
       jwt |-> jwtSign(email, JWT_SECRET, RefreshTTL, 0)] }

InitPopulated ==
    /\ users = { SeedUser(1, "A", "a@x.com", "pw1", 1),
                 SeedUser(2, "B", "b@x.com", "pw2", 2) }
    /\ planes = { SeedPlane(3, "LDZA", "Croatia Airlines", "9A-CTA", "a@x.com"),
                  SeedPlane(4, "ldza", "Ryanair", "9H-QAA", "b@x.com"),
                  SeedPlane(5, "LDSP", "Croatia Airlines", "9A-CTB", "b@x.com") }
    /\ nextId = 6
    /\ now = 0
    /\ ticks = 0
    /\ nreq = 0
    /\ issued = SeedTokens("a@x.com") \cup SeedTokens("b@x.com")
    /\ reqs = [r \in Slots |-> IdleReq]
    /\ resp = NoResp
    /\ server = Listening

\* "Bearer <token>" with an access token the server issued
AccessHeaders == {<<BearerWord, i.jwt>> : i \in {j \in issued : j.use = "token"}}

ValidPlaneBody ==
    [airport |-> "LDZA", planeModel |-> "A320", airline |-> "Croatia Airlines",
     registration |-> "9A-CTA"]

(* Listing while accounts are deleted *)
NextList ==
    \/ \E r \in Slots, a \in ListParams : ReceiveList(r, a)
    \/ \E r \in Slots : ListFind(r)
    \/ \E r \in Slots : \E p \in reqs[r].found : ListLookup(r, p)
    \/ \E r \in Slots, a \in ListParams : ReceiveAirlines(r, a)
    \/ \E r \in Slots, a \in ListParams :
          ReceiveAirlinePlanes(r, a, "Croatia Airlines")
    \/ \E r \in Slots, h \in AccessHeaders : ReceiveDelete(r, h)
    \/ \E r \in Slots : DeleteAccountDeleteMany(r)
    \/ \E r \in Slots : DeleteAccountDeleteOne(r)

SpecList == InitPopulated /\ [][NextList]_vars

(* Request bodies with present, empty and missing fields *)
FieldValues(v) == {v, "", Missing}

AllRegisterBodies ==
    FieldValues("C") \X (FieldValues("c@x.com") \cup {"a@x.com"}) \X FieldValues("pw1")

\* the valid body, the bodies with one field empty or missing, and the body
\* with no field at all
DefectivePlaneBodies ==
    {ValidPlaneBody}
        \cup {[ValidPlaneBody EXCEPT ![f] = v] :
                 f \in {"airport", "planeModel", "airline", "registration"},
                 v \in {"", Missing}}
        \cup {[airport |-> Missing, planeModel |-> Missing, airline |-> Missing,
               registration |-> Missing]}

NextInput ==
    \/ \E r \in Slots, b \in AllRegisterBodies : ReceiveRegister(r, b[1], b[2], b[3])
    \/ \E r \in Slots : RegisterFindOne(r)
    \/ \E r \in Slots : RegisterInsertOne(r)
    \/ \E r \in Slots, h \in AccessHeaders, b \in DefectivePlaneBodies :
          ReceiveAddPlane(r, h, b, "")
    \/ \E r \in Slots : AddPlaneInsertOne(r)
    \/ \E r \in Slots : AddPlaneUpdateOne(r)

SpecInput == InitPopulated /\ [][NextInput]_vars

(* Store calls that fail and a process that is stopped *)
NextFault ==
    \/ \E r \in Slots, h \in AccessHeaders : ReceiveDelete(r, h)
    \/ \E r \in Slots : DeleteAccountDeleteMany(r)
    \/ \E r \in Slots : DeleteAccountDeleteOne(r)
    \/ \E r \in Slots, h \in AccessHeaders : ReceiveAddPlane(r, h, ValidPlaneBody, "")
    \/ \E r \in Slots : AddPlaneInsertOne(r)
    \/ \E r \in Slots : AddPlaneUpdateOne(r)
    \/ \E r \in Slots : ReceiveRegister(r, "C", "b@x.com", "pw1")
    \/ \E r \in Slots : RegisterFindOne(r)
    \/ \E r \in Slots : RegisterInsertOne(r)
    \/ \E r \in Slots : ReceiveLogin(r, "a@x.com", "pw1")
    \/ \E r \in Slots : LoginFindOne(r)
    \/ \E r \in Slots : LoginCompare(r)
    \/ \E r \in Slots, h \in AccessHeaders : ReceiveProfile(r, h)
    \/ \E r \in Slots : ProfileFindOne(r)
    \/ \E r \in Slots, h \in AccessHeaders :
          ReceiveUpload(r, h, "1700000000000-1.jpg")
    \/ \E r \in Slots : UploadUpdateOne(r)
    \/ \E r \in Slots : ReceiveList(r, "LDZA")
    \/ \E r \in Slots : ListFind(r)
    \/ \E r \in Slots : \E p \in reqs[r].found : ListLookup(r, p)
    \/ \E r \in Slots, gone \in SUBSET planes : StoreFails(r, gone)
    \/ Sigint
    \/ \E ok \in BOOLEAN : ProcessExit(ok)

SpecFault == InitPopulated /\ [][NextFault]_vars

(* Every route, on the service in use *)
\* the access tokens the server issued, and a token for a@x.com signed with
\* another key
SentHeaders == AccessHeaders \cup {<<BearerWord, ForgedTok("a@x.com")>>}

NextAll ==
    \/ \E r \in Slots, e \in Emails : ReceiveRegister(r, "C", e, "pw1")
    \/ \E r \in Slots : RegisterFindOne(r)
    \/ \E r \in Slots : RegisterInsertOne(r)
    \/ \E r \in Slots : ReceiveLogin(r, "a@x.com", "pw1")
    \/ \E r \in Slots : LoginFindOne(r)
    \/ \E r \in Slots : LoginCompare(r)
    \/ \E r \in Slots, i \in issued : RefreshToken(r, i.jwt)
    \/ \E r \in Slots, h \in SentHeaders : ReceiveProfile(r, h)
    \/ \E r \in Slots : ProfileFindOne(r)
    \/ \E r \in Slots, h \in SentHeaders : ReceiveAddPlane(r, h, ValidPlaneBody, "")
    \/ \E r \in Slots : AddPlaneInsertOne(r)
    \/ \E r \in Slots : AddPlaneUpdateOne(r)
    \/ \E r \in Slots, h \in SentHeaders, f \in Files : ReceiveUpload(r, h, f)
    \/ \E r \in Slots : UploadUpdateOne(r)
    \/ \E r \in Slots, h \in SentHeaders : ReceiveDelete(r, h)
    \/ \E r \in Slots : DeleteAccountDeleteMany(r)
    \/ \E r \in Slots : DeleteAccountDeleteOne(r)
    \/ \E r \in Slots, a \in {"LDZA", "LDSP", "L.ZA"} : ReceiveList(r, a)
    \/ \E r \in Slots : ListFind(r)
    \/ \E r \in Slots : \E p \in reqs[r].found : ListLookup(r, p)

SpecAll == InitPopulated /\ [][NextAll]_vars

(* Login, add-plane and list, one request after the other *)
FlowAirports == {"LDZA", "("}

NextFlow ==
    \/ \E r \in Slots, b \in {<<"a@x.com", "pw1">>, <<"b@x.com", "pw2">>} :
          Quiescent /\ ReceiveLogin(r, b[1], b[2])
    \/ \E r \in Slots : LoginFindOne(r)
    \/ \E r \in Slots : LoginCompare(r)
    \/ \E r \in Slots, h \in AccessHeaders, a \in FlowAirports :
          Quiescent /\ ReceiveAddPlane(r, h, [ValidPlaneBody EXCEPT !.airport = a], "")
    \/ \E r \in Slots : AddPlaneInsertOne(r)
    \/ \E r \in Slots : AddPlaneUpdateOne(r)
    \/ \E r \in Slots, a \in FlowAirports : Quiescent /\ ReceiveList(r, a)
    \/ \E r \in Slots : ListFind(r)
    \/ \E r \in Slots : \E p \in reqs[r].found : ListLookup(r, p)

SpecFlow == InitPopulated /\ [][NextFlow]_vars

(* Every path of a request: the gate, the validation, the store, its failures *)
LiveHeaders == SentHeaders \cup {NoHeader}

LiveBodies == {ValidPlaneBody, [ValidPlaneBody EXCEPT !.airline = Missing]}

\* the handler in slot r goes on: the store call it awaits returns or fails
Continue(r) ==
    \/ AddPlaneInsertOne(r)
    \/ AddPlaneUpdateOne(r)
    \/ DeleteAccountDeleteMany(r)
    \/ DeleteAccountDeleteOne(r)
    \/ ProfileFindOne(r)
    \/ \E gone \in SUBSET planes : StoreFails(r, gone)

NextLive ==
    \/ \E r \in Slots, t \in {i.jwt : i \in issued} \cup {GarbageTok, UndefinedTok} :
          RefreshToken(r, t)
    \/ \E r \in Slots, h \in LiveHeaders, b \in LiveBodies : ReceiveAddPlane(r, h, b, "")
    \/ \E r \in Slots, h \in LiveHeaders : ReceiveDelete(r, h)
    \/ \E r \in Slots, h \in LiveHeaders : ReceiveProfile(r, h)
    \/ \E r \in Slots : Continue(r)

\* every store call a handler awaits eventually returns or fails
SpecLive ==
    InitPopulated /\ [][NextLive]_vars /\ \A r \in Slots : WF_vars(Continue(r))

(* The process from its start *)
InitStart ==
    /\ users = {}
    /\ planes = {}
    /\ nextId = 1
    /\ now = 0
    /\ ticks = 0
    /\ nreq = 0
    /\ issued = {}
    /\ reqs = [r \in Slots |-> IdleReq]
    /\ resp = NoResp
    /\ server = Starting

NextStart ==
    \/ \E ok \in BOOLEAN : StartServerStep(ok)
    \/ Sigint
    \/ \E ok \in BOOLEAN : ProcessExit(ok)
    \/ \E r \in Slots : ReceiveHealth(r)
    \/ \E r \in Slots, ok \in BOOLEAN : HealthPing(r, ok)
    \/ \E r \in Slots, b \in RegisterBodies : ReceiveRegister(r, b[1], b[2], b[3])
    \/ \E r \in Slots : RegisterFindOne(r)
    \/ \E r \in Slots : RegisterInsertOne(r)

SpecStart == InitStart /\ [][NextStart]_vars

---------------------------------------------------------------------------
(* Properties *)

\* no two User documents share an email
UniqueEmails == \A u, v \in users : u.email = v.email => u = v

\* a step that answers a Register with 201 is the step that inserts the User
\* for an email that had none
RegisterSuccessCreates ==
    (resp'.op = "register" /\ resp'.status = 201)
        => /\ ~\E u \in users : u.email = resp'.req.email
           /\ \E u \in users' \ users : /\ u.email = resp'.req.email
                                        /\ u.username = resp'.req.username
           /\ Cardinality(users') = Cardinality(users) + 1

\* a Register that is answered 201 although a concurrent Register for the
\* same email had created a User: that User is no longer in the collection
RivalGone ==
    (resp'.op = "register" /\ resp'.status = 201)
        => \A k \in resp'.req.rivals : ~\E u \in users : u.id = k

\* a User leaves the collection only in the step that answers its own
\* DeleteAccount with 200
OnlyDeleteRemoves ==
    \A u \in users :
        (\A v \in users' : v.id # u.id)
            => /\ resp'.op = "delete-account" /\ resp'.status = 200
               /\ resp'.req.user = u.email

C2_LoserGets400 ==
    (/\ resp.op = "register"
     /\ resp.status # 201
     /\ ~(Blank(resp.req.username) \/ Blank(resp.req.email)
          \/ Blank(resp.req.password)))
        => (resp.status = 400 /\ resp.message = "Email already in use")

\* the password of a Login does not verify against the stored hash of its email
NonVerifying(email, password) ==
    /\ UserExists(email)
    /\ bcryptCompare(password, findOneUser(email).password) # "match"

\* C3 (as claimed): a Login whose email matches no User and a Login whose
\* email exists but whose password does not verify get the same answer,
\* 400 "Invalid credentials".
C3_SameLoginFailure ==
    (/\ resp.op = "login"
     /\ (resp.req.userDoc = {}
         \/ \E u \in resp.req.userDoc :
               bcryptCompare(resp.req.password, u.password) # "match"))
        => (resp.status = 400 /\ resp.message = "Invalid credentials")

---------------------------------------------------------------------------
(* Tokens, as the clients that hold them know them *)

\* the lifetime a token was issued with, by the response field it came in
Lifetime(use) == IF use = "token" THEN AccessTTL ELSE RefreshTTL

\* the server issued this token
Genuine(tok) == \E i \in issued : i.jwt = tok

\* the server issued this token, and at time t its lifetime is over
LifetimeOver(tok, t) == \E i \in issued : i.jwt = tok /\ t >= i.at + Lifetime(i.use)

IsAccessToken(tok) == \E i \in issued : i.jwt = tok /\ i.use = "token"
IsRefreshToken(tok) == \E i \in issued : i.jwt = tok /\ i.use = "refreshToken"

GatedOps == {"profile", "add-plane", "upload-profile-image", "delete-account"}

\* C4: an access token issued at time t (by Register, Login or the refresh
\* endpoint) passes the gate at every time before t + 1 hour and yields its
\* email; from t + 1 hour on the gate answers 403 'Token expired' with
\* expiredAt = t + 1 hour, never 'Invalid token'.
C4_AccessTokenWindow ==
    /\ \A i \in issued :
         i.use = "token" =>
           LET g == authenticateToken(<<BearerWord, i.jwt>>, now)
           IN  IF now < i.at + AccessTTL
               THEN g.next /\ g.user = i.jwt.email
               ELSE /\ ~g.next
                    /\ g.status = 403
                    /\ g.message = "Token expired"
                    /\ g.expiredAt = i.at + AccessTTL
    /\ (/\ resp.stage = "gate"
        /\ Len(resp.req.authHeader) = 2
        /\ IsAccessToken(resp.req.authHeader[2]))
         => \E i \in issued : /\ i.jwt = resp.req.authHeader[2]
                              /\ now >= i.at + AccessTTL
                              /\ resp.message = "Token expired"
                              /\ resp.expiredAt = i.at + AccessTTL

\* C4 witness: the gate has just rejected an access token whose hour is over
C4_Witness ==
    /\ resp.stage = "gate"
    /\ resp.message = "Token expired"
    /\ Len(resp.req.authHeader) = 2
    /\ IsAccessToken(resp.req.authHeader[2])
    /\ resp.expiredAt = resp.req.authHeader[2].iat + AccessTTL
    /\ now >= resp.expiredAt

\* the header carries a non-empty second space-separated part
Presented(authHeader) == Len(authHeader) >= 2 /\ authHeader[2].kind # "empty"

\* what the gate decided for a request, by what the client sent and when
GateOutcomeOf(r) ==
    LET h == r.req.authHeader
    IN  /\ r.status \in {401, 403}
        /\ (r.status = 401) <=> ~Presented(h)
        /\ (r.status = 401) => r.message = "No token provided"
        /\ (r.status = 403) => r.message \in {"Token expired", "Invalid token"}
        /\ (Presented(h) /\ Genuine(h[2]))
             => (r.message = "Token expired" /\ LifetimeOver(h[2], r.req.gateAt))
        /\ (Presented(h) /\ ~Genuine(h[2])) => r.message = "Invalid token"

\* the token of a request the gate let through is a token the server issued
\* whose lifetime was not over at the gate
PassedGate(req) ==
    /\ Presented(req.authHeader)
    /\ Genuine(req.authHeader[2])
    /\ ~LifetimeOver(req.authHeader[2], req.gateAt)

\* C5 (as claimed): 401 is answered only to a header with no second
\* space-separated part.
C5_401OnlyWithoutSecondPart ==
    (resp.stage = "gate" /\ resp.status = 401) => Len(resp.req.authHeader) < 2

\* C5 (amended): the gate gives every request exactly one of four outcomes:
\* 401 'No token provided' exactly when there is no Authorization header or its
\* second space-separated part is missing or empty; 403 'Token expired' for an
\* issued token whose lifetime is over; 403 'Invalid token' for every other
\* presented token that does not verify; otherwise the request proceeds.
C5_GateOutcomes ==
    /\ resp.stage = "gate" => GateOutcomeOf(resp)
    /\ \A r \in Slots : reqs[r].op \in GatedOps => PassedGate(reqs[r])

\* C5 witness: 'Bearer  <token>' with a token that would verify was answered 401
C5_Witness ==
    /\ resp.stage = "gate" /\ resp.status = 401
    /\ Len(resp.req.authHeader) = 3
    /\ Genuine(resp.req.authHeader[3])
    /\ ~LifetimeOver(resp.req.authHeader[3], now)

\* the request went through the gate with a verified token, and req.user is
\* that token's email
Verified(req) ==
    /\ Len(req.authHeader) >= 2
    /\ \E i \in issued : /\ i.jwt = req.authHeader[2]
                         /\ req.gateAt < i.at + Lifetime(i.use)
                         /\ req.user = i.jwt.email

\* a rejection by the gate touches no collection and starts no handler; a
\* handler answers, and a collection changes, only for a request that passed
GateBeforeHandler ==
    /\ resp'.stage = "gate"
         => /\ resp'.status \in {401, 403}
            /\ resp'.op \in GatedOps
            /\ UNCHANGED <<users, planes, reqs>>
    /\ (resp'.stage = "handler" /\ resp'.op \in GatedOps) => Verified(resp'.req)
    /\ (users' # users \/ planes' # planes)
         => \E r \in Slots : /\ reqs[r].pc # "idle"
                             /\ reqs'[r] # reqs[r]
                             /\ reqs[r].op \in GatedOps => Verified(reqs[r])

\* C6: on the gated routes the handler runs, and reads or writes the store, only
\* after the gate verified the presented token; when the gate answers 401 or
\* 403 the collections are unchanged and the handler is not entered.
C6_GateBeforeHandler ==
    /\ [](\A r \in Slots : reqs[r].op \in GatedOps => Verified(reqs[r]))
    /\ [][GateBeforeHandler]_vars

\* C6 witness: the gate has just rejected a request while both collections
\* hold documents
C6_Witness ==
    /\ resp.stage = "gate" /\ resp.status = 403
    /\ users # {} /\ planes # {}

\* C7 (as claimed): the step that answers an AddPlaneRecord of owner e with 201
\* raises the numberOfPlanes of the User with email e by exactly 1.
C7_AddPlaneIncrements ==
    [][(resp'.op = "add-plane" /\ resp'.status = 201)
         => \E u \in users :
              /\ u.email = resp'.req.user
              /\ \E v \in users' : /\ v.id = u.id
                                   /\ v.numberOfPlanes = u.numberOfPlanes + 1]_vars

\* C8 (as claimed): when DeleteAccount of owner e has answered 200 the planes
\* collection holds no record of e.
C8_NoRecordsAfterDelete ==
    (resp.op = "delete-account" /\ resp.status = 200)
        => \A p \in planes : p.userId # resp.req.user

\* C9 (as claimed): the gate of the protected routes lets no refresh token
\* through, and the refresh endpoint mints nothing for an access token.
C9_RefreshOnlyMints ==
    /\ \A r \in Slots :
         reqs[r].op \in GatedOps => ~IsRefreshToken(HeaderToken(reqs[r].authHeader))
    /\ (resp.op = "refresh" /\ resp.status = 200) => ~IsAccessToken(resp.req.token)

\* C10: verification depends on the token, the secret and the time alone: in
\* every reachable store state an issued token verifies, and passes the gate,
\* exactly while its lifetime is not over, whatever was done in between
\* (Login, refresh, DeleteAccount of its email, a new Register of it), and the
\* refresh endpoint answers 200 for it then.
C10_StatelessVerification ==
    /\ \A i \in issued :
         LET v == jwtVerify(i.jwt, JWT_SECRET, now)
             g == authenticateToken(<<BearerWord, i.jwt>>, now)
         IN  IF now < i.at + Lifetime(i.use)
             THEN v.err = "" /\ v.email = i.jwt.email /\ g.next
             ELSE v.err = "TokenExpiredError" /\ ~g.next
    /\ (resp.op = "refresh" /\ Genuine(resp.req.token))
         => (resp.status = 200 <=> ~LifetimeOver(resp.req.token, now))

\* C10 witness: a token whose account was deleted has just passed the gate;
\* the profile handler found no User for it
C10_Witness ==
    /\ resp.op = "profile" /\ resp.status = 404
    /\ Genuine(HeaderToken(resp.req.authHeader))
    /\ ~UserExists(resp.req.user)

---------------------------------------------------------------------------
(* The refresh endpoint *)

\* the step answers a refresh with 200: the new access token carries the email
\* of the presented token and expires an hour from now, the gate accepts it,
\* the collections are untouched and no token a client holds is taken away
RefreshSuccessEffect ==
    (resp'.op = "refresh" /\ resp'.status = 200)
        => /\ resp'.token.email = resp'.req.token.email
           /\ resp'.token.iat = now
           /\ resp'.token.exp = now + AccessTTL
           /\ authenticateToken(<<BearerWord, resp'.token>>, now).next
           /\ UNCHANGED <<users, planes>>
           /\ issued \subseteq issued'
           /\ jwtVerify(resp'.req.token, JWT_SECRET, now').err = ""

\* C11: a successful refresh returns an access token with the email of the
\* presented refresh token that expires 1 hour after the call; it changes
\* neither the store nor the refresh token, and every use of an issued refresh
\* token before its 7-day expiry succeeds, however often it was used before.
C11_RefreshMintsAndKeeps ==
    /\ [][RefreshSuccessEffect]_vars
    /\ []((/\ resp.op = "refresh"
           /\ IsRefreshToken(resp.req.token)
           /\ ~LifetimeOver(resp.req.token, now)) => resp.status = 200)

\* C11 witness: a refresh token is used with success after an earlier refresh
\* with it (an access token was minted at a time when no refresh token was)
C11_Witness ==
    /\ resp.op = "refresh" /\ resp.status = 200
    /\ IsRefreshToken(resp.req.token)
    /\ \E i \in issued :
         /\ i.use = "token" /\ i.jwt.email = resp.req.token.email
         /\ i.at > resp.req.token.iat /\ i.at < now
         /\ ~\E j \in issued : j.use = "refreshToken" /\ j.at = i.at

\* how the refresh endpoint answers, by what the client sent and when
RefreshOutcome ==
    resp'.op = "refresh"
        => LET t == resp'.req.token
           IN  /\ resp'.status \in {200, 401, 403}
               /\ (resp'.status = 401) <=> Falsy(t)
               /\ (resp'.status = 200) <=> (Genuine(t) /\ ~LifetimeOver(t, now))
               /\ (resp'.status = 200) => jwtVerify(t, JWT_SECRET, now).err = ""
               /\ (resp'.status # 200)
                    => (resp'.token = UndefinedTok /\ issued' = issued)

\* C12: the refresh endpoint answers 401 for a missing token and 403 for a
\* malformed, wrongly signed or expired one, and issues nothing then; it issues
\* an access token only for a token that verifies at the time of the call.
C12_RefreshFailures == [][RefreshOutcome]_vars

\* C12 witness: a refresh token past its 7 days has just been refused
C12_Witness ==
    /\ resp.op = "refresh" /\ resp.status = 403
    /\ IsRefreshToken(resp.req.token)
    /\ now >= resp.req.token.iat + RefreshTTL

\* the step answers a Register with 201: one new document with the submitted
\* email and username, no planes and no image; nothing else changes; the two
\* tokens carry the email and the two lifetimes
RegisterSuccessEffect ==
    (resp'.op = "register" /\ resp'.status = 201)
        => /\ \E u \in users' :
                /\ users' = users \cup {u} /\ u \notin users
                /\ u.email = resp'.req.email
                /\ u.username = resp'.req.username
                /\ u.numberOfPlanes = 0
                /\ u.profileImage = ""
           /\ planes' = planes
           /\ resp'.token.email = resp'.req.email
           /\ resp'.token.exp = now + AccessTTL
           /\ resp'.refreshToken.email = resp'.req.email
           /\ resp'.refreshToken.exp = now + RefreshTTL
           /\ jwtVerify(resp'.token, JWT_SECRET, now).email = resp'.req.email
           /\ jwtVerify(resp'.refreshToken, JWT_SECRET, now).email = resp'.req.email

\* C17: a successful Register adds exactly one User with the submitted email
\* and username, numberOfPlanes 0 and empty profileImage, leaves every other
\* user and all planes unchanged, and returns an access token (1 hour) and a
\* refresh token (7 days) that both embed the registered email.
C17_RegisterEffect == [][RegisterSuccessEffect]_vars

\* C17 witness: a Register has just succeeded beside an existing other User
C17_Witness ==
    /\ resp.op = "register" /\ resp.status = 201
    /\ Cardinality(users) = 2
    /\ \E u \in users : u.email # resp.req.email /\ u.numberOfPlanes > 0

---------------------------------------------------------------------------
(* The list routes *)

\* the two strings are equal up to the case of their letters
EqIgnoreCase(a, b) ==
    /\ Len(Chars(a)) = Len(Chars(b))
    /\ \A i \in 1..Len(Chars(a)) : Lower(Chars(a)[i]) = Lower(Chars(b)[i])

\* the records the planes query of request r hands to the join in this step
QueryResult(r) == IF reqs'[r].pc = "findOne" THEN reqs'[r].found ELSE {}

\* C13 (as claimed): the planes query of a list request returns a record if
\* and only if the record's airport equals the parameter ignoring letter case;
\* no parameter selects a record whose airport is a different string.
C13_ExactMatchIgnoringCase ==
    [][\A r \in Slots :
         (reqs[r].op = "list" /\ reqs[r].pc = "find" /\ reqs'[r] # reqs[r])
            => QueryResult(r) =
                 {p \in planes : EqIgnoreCase(reqs[r].airport, p.airport)}]_vars

\* C14 (as claimed): in every store state two list calls whose airport
\* parameters differ only in letter case select the same records.
C14_CaseOfParameterIrrelevant ==
    \A a, b \in ListParams :
        EqIgnoreCase(a, b)
            => /\ SyntaxError(Chars(a)) = SyntaxError(Chars(b))
               /\ findPlanes(a) = findPlanes(b)

\* the records request r has joined after this step
JoinedAfter(r) == IF reqs'[r].pc = "findOne" THEN reqs'[r].joined ELSE resp'.list

\* a lookup step of the join adds one record of the query result, with the
\* username its owner has at this moment or "Unknown" when the owner is gone,
\* and the step that completes the join answers 200 with all of them
JoinStep ==
    \A r \in Slots :
        (reqs[r].op = "list" /\ reqs[r].pc = "findOne" /\ reqs'[r] # reqs[r])
            => /\ \E p \in reqs[r].found :
                    /\ JoinedAfter(r) \ reqs[r].joined = {withUsername(p)}
                    /\ withUsername(p).username =
                         IF UserExists(p.userId)
                         THEN findOneUser(p.userId).username ELSE "Unknown"
               /\ reqs'[r].pc = "idle"
                    => /\ resp'.op = "list" /\ resp'.status = 200
                       /\ {j.id : j \in resp'.list} = {p.id : p \in reqs[r].found}

\* the join part of C15 taken alone: with the store answering, the lookups
\* never make a list request fail, and a query without result is answered
\* 200 with the empty list
JoinNeverFails ==
    /\ [][JoinStep]_vars
    /\ []((resp.op = "list" /\ resp.req.pc # "idle") => resp.status = 200)
    /\ []((resp.op = "list" /\ resp.req.pc = "find") => resp.list = {})

\* a list response with one record of a deleted owner and one of a present owner
JoinMixed ==
    /\ resp.op = "list" /\ resp.status = 200
    /\ \E j, k \in resp.list : j.username = "Unknown" /\ k.username = "A"

\* C15 (as claimed): a list request never fails: owners that are gone appear
\* as "Unknown", and a parameter that no record's airport equals gets an empty
\* list with a success status, not an error.
C15_ListNeverFails ==
    resp.op = "list"
        => /\ resp.status = 200
           /\ (~\E p \in planes : EqIgnoreCase(resp.req.airport, p.airport))
                => resp.list = {}

\* C16 (as claimed): the airlines route is served, and answers with the
\* distinct airlines of the records whose airport equals the parameter
\* ignoring letter case.
C16_AirlinesServed ==
    resp.op = "airlines"
        => /\ resp.status = 200
           /\ resp.list = {p.airline : p \in {q \in planes :
                               EqIgnoreCase(resp.req.airport, q.airport)}}

---------------------------------------------------------------------------
(* Validation of request bodies *)

\* the field is missing from the body or is the empty string
Absent(v) == v = Missing \/ v = ""

DefectivePlane(b) ==
    Absent(b.airport) \/ Absent(b.planeModel) \/ Absent(b.airline)
        \/ Absent(b.registration)

\* the step that handles an add-plane request with a defective body answers
\* 400 and changes neither collection
DefectivePlaneRejected ==
    \A r \in Slots :
        (/\ reqs[r].op = "add-plane"
         /\ DefectivePlane(reqs[r].body)
         /\ reqs'[r] # reqs[r])
            => /\ resp'.op = "add-plane" /\ resp'.req = reqs[r]
               /\ resp'.status = 400
               /\ resp'.message = "Required fields missing"
               /\ reqs'[r].pc = "idle"
               /\ UNCHANGED <<users, planes>>

\* C18: an add-plane request with airport, planeModel, airline or registration
\* missing or empty is answered 400 and leaves the planes collection and the
\* owner's numberOfPlanes unchanged: no such record is ever stored, and no
\* such request reaches the increment.
C18_DefectivePlaneRejected ==
    /\ [][DefectivePlaneRejected]_vars
    /\ [](\A p \in planes : ~DefectivePlane(p))
    /\ [](\A r \in Slots : reqs[r].pc = "updateOne" => ~DefectivePlane(reqs[r].body))

\* C18 witness: a request of a User with planes, with an empty registration,
\* has just been refused
C18_Witness ==
    /\ resp.op = "add-plane" /\ resp.status = 400
    /\ resp.req.body.registration = ""
    /\ \E u \in users : u.email = resp.req.user /\ u.numberOfPlanes > 0

DefectiveRegister(req) ==
    Absent(req.username) \/ Absent(req.email) \/ Absent(req.password)

\* a Register with a defective body is answered 400 in the step in which it
\* arrives, which touches neither the store nor the tokens
DefectiveRegisterRejected ==
    (resp'.op = "register" /\ DefectiveRegister(resp'.req))
        => /\ resp'.status = 400
           /\ resp'.message = "All fields are required"
           /\ nreq' = nreq + 1
           /\ resp'.req.pc = "idle"
           /\ resp'.token = UndefinedTok /\ resp'.refreshToken = UndefinedTok
           /\ UNCHANGED <<users, planes, issued, reqs>>

\* C19: a Register with an empty or missing username, email or password is
\* answered 400 before any store access (no such request is ever waiting for
\* the store), creates no User and issues no tokens.
C19_DefectiveRegisterRejected ==
    /\ [][DefectiveRegisterRejected]_vars
    /\ [](\A r \in Slots : reqs[r].op = "register" => ~DefectiveRegister(reqs[r]))
    /\ [](\A u \in users : ~Absent(u.username) /\ ~Absent(u.email))

\* C19 witness: a Register with an empty email has just been refused
C19_Witness ==
    /\ resp.op = "register" /\ resp.status = 400
    /\ resp.req.email = ""
    /\ ~Absent(resp.req.username) /\ ~Absent(resp.req.password)

---------------------------------------------------------------------------
(* The two steps of DELETE /api/delete-account *)

BetweenSteps(req) == req.op = "delete-account" /\ req.pc = "deleteOne"

\* a request gets between the two steps only by a deleteMany that completed,
\* which removes every record the owner has at that moment and no User
PlanesFirst ==
    \A r \in Slots :
        (BetweenSteps(reqs'[r]) /\ ~BetweenSteps(reqs[r]))
            => /\ reqs[r].op = "delete-account" /\ reqs[r].pc = "deleteMany"
               /\ \A p \in planes : p.userId = reqs[r].user => p \notin planes'
               /\ \A p \in planes' : p.userId # reqs[r].user
               /\ users' = users

\* a User document disappears only in the second step of a DeleteAccount for
\* its email, which is answered 200
UserLast ==
    \A u \in users :
        (~\E v \in users' : v.email = u.email)
            => \E r \in Slots :
                 /\ BetweenSteps(reqs[r]) /\ reqs[r].user = u.email
                 /\ users' = users \ {u}
                 /\ resp'.op = "delete-account" /\ resp'.status = 200
                 /\ resp'.req = reqs[r]

\* an execution that ends without its 200, in either step, deletes no User;
\* one that ends between the two steps changes no collection
FailureKeepsUser ==
    \A r \in Slots :
        (/\ reqs[r].op = "delete-account"
         /\ reqs'[r].pc = "idle"
         /\ ~(resp'.op = "delete-account" /\ resp'.status = 200))
            => /\ users' = users
               /\ BetweenSteps(reqs[r]) => planes' = planes

\* a record that was removed never comes back: new records get new ids
RecordsAreFresh == \A p \in planes' \ planes : p.id >= nextId

\* C20: in every DeleteAccount execution the owner's PlaneRecords are deleted
\* before the User, and the User is deleted only after that deletion completed
\* without error; an execution that fails or is interrupted between the two
\* steps leaves the User in place, and the records that existed when the
\* deletion started are gone for good.
C20_PlanesThenUser ==
    /\ [][PlanesFirst /\ UserLast /\ FailureKeepsUser /\ RecordsAreFresh]_vars
    /\ [](\A p \in planes : p.id < nextId)

\* C20 witness: the second step of a DeleteAccount has just failed: the User
\* is still there and has none of the two records it started with
C20_Witness ==
    /\ resp.op = "delete-account" /\ resp.status = 500
    /\ BetweenSteps(resp.req)
    /\ resp.req.user = "b@x.com"
    /\ UserExists("b@x.com")
    /\ ~\E p \in planes : p.userId = "b@x.com"

---------------------------------------------------------------------------
(* Startup *)

\* the service starts listening only from the last await of startServer,
\* with the handle assigned; a startup that fails exits with code 1 and has
\* accepted nothing
ListenLast ==
    /\ (server'.pc = "listening" /\ server.pc # "listening")
          => (server.pc = "index3" /\ server.db /\ server'.db)
    /\ (server'.pc = "exited" /\ server.pc \in StartupPcs)
          => (nreq = 0 /\ (server.sigint = "none" => server'.code = 1))
    /\ nreq' # nreq => (server.pc = "listening" /\ server.db)

\* C24: requests are accepted only after the connection is established, the
\* handle assigned and the indexes created; a failing startup exits with a
\* failure code without ever listening; so whenever a handler runs the handle
\* is set, and the health endpoint never answers 'Disconnected'.
C24_ListenAfterConnect ==
    /\ [][ListenLast]_vars
    /\ []((\E r \in Slots : reqs[r].pc # "idle") => server.db)
    /\ [](resp.op # "none" => server.db)
    /\ [](server.pc \in StartupPcs => nreq = 0)
    /\ []((server.pc = "exited" /\ server.sigint = "none") => nreq = 0)
    /\ [](resp.op = "health" => resp.database # "Disconnected")

\* C24 witness: the health endpoint has answered after a successful startup
C24_Witness ==
    /\ resp.op = "health" /\ resp.database = "Connected"
    /\ server.pc = "listening" /\ users # {}

\* a startup has failed after the connection was made
StartupFailed == server.pc = "exited" /\ server.db /\ server.code = 1

---------------------------------------------------------------------------
(* What the operations leave alone *)

\* request r takes a step in which it acts for the email of a token the
\* server issued and that was in its lifetime at the gate
ActsFor(r, op, pc, email) ==
    /\ reqs[r].op = op /\ reqs[r].pc = pc
    /\ reqs'[r] # reqs[r]
    /\ Verified(reqs[r])
    /\ reqs[r].authHeader[2].email = email
    /\ reqs[r].user = email

\* a stored record stays as it is, or goes in the deleteMany of a
\* DeleteAccount for its owner
PlaneFrame ==
    /\ \A p \in planes :
         \/ p \in planes'
         \/ \E r \in Slots : ActsFor(r, "delete-account", "deleteMany", p.userId)
    /\ \A p \in planes, q \in planes' : q.id = p.id => q = p

\* C21: once inserted, a PlaneRecord never changes, and it leaves the planes
\* collection only through a DeleteAccount performed with a token for its
\* owner email; no other operation removes or modifies an existing record.
C21_PlaneRecordsImmutable == [][PlaneFrame]_vars

\* C21 witness: a DeleteAccount for b@x.com has removed b's records and left
\* the record of a@x.com
C21_Witness ==
    /\ \E r \in Slots : BetweenSteps(reqs[r]) /\ reqs[r].user = "b@x.com"
    /\ ~\E p \in planes : p.userId = "b@x.com"
    /\ \E p \in planes : p.userId = "a@x.com" /\ p.id = 3

\* a User document keeps email, username and password hash; its image changes
\* only in an upload for its email, its count only by one in an add-plane
\* for its email, and it goes only in the deleteOne of a DeleteAccount
UserFrame ==
    \A u \in users :
        IF \E v \in users' : v.id = u.id
        THEN LET v == CHOOSE w \in users' : w.id = u.id
             IN  /\ v.email = u.email
                 /\ v.username = u.username
                 /\ v.password = u.password
                 /\ v.profileImage # u.profileImage
                      => \E r \in Slots :
                           ActsFor(r, "upload-profile-image", "updateOne", u.email)
                 /\ v.numberOfPlanes # u.numberOfPlanes
                      => /\ v.numberOfPlanes = u.numberOfPlanes + 1
                         /\ \E r \in Slots :
                              ActsFor(r, "add-plane", "updateOne", u.email)
        ELSE \E r \in Slots : ActsFor(r, "delete-account", "deleteOne", u.email)

\* C22: no operation changes the email, username or password hash of an
\* existing User; only profileImage (upload-profile-image) and numberOfPlanes
\* (add-plane) are ever mutated, and a User document disappears only through
\* DeleteAccount.
C22_UserFieldsImmutable == [][UserFrame]_vars

\* C22 witness: an upload has just changed the image of a User that has planes
C22_Witness ==
    /\ resp.op = "upload-profile-image" /\ resp.status = 200
    /\ \E u \in users : /\ u.email = resp.req.user
                        /\ u.profileImage = resp.profileImage
                        /\ u.username \in {"A", "B"}
                        /\ u.numberOfPlanes > 0

\* every change of a collection is made by a request that passed the gate
\* with a token for email e and touches only e's documents; Register adds a
\* document and touches no other
OwnerOnly ==
    /\ \A p \in planes' \ planes :
         \E r \in Slots : ActsFor(r, "add-plane", "insertOne", p.userId)
    /\ \A p \in planes \ planes' :
         \E r \in Slots : ActsFor(r, "delete-account", "deleteMany", p.userId)
    /\ \A u \in users \ users' :
         \E r \in Slots :
            /\ reqs[r].op \in {"add-plane", "upload-profile-image", "delete-account"}
            /\ ActsFor(r, reqs[r].op, reqs[r].pc, u.email)
            /\ \A w \in users \ {u} : w \in users'

\* C23: a request authenticated as email e creates PlaneRecords owned only by
\* e, changes profileImage and numberOfPlanes only of the User with email e,
\* and its DeleteAccount removes only e's User and e's PlaneRecords; users and
\* records of every other email are left unchanged.
C23_OwnerOnly == [][OwnerOnly]_vars

\* C23 witness: a@x.com has just added a plane, and b@x.com is as it was
C23_Witness ==
    /\ resp.op = "add-plane" /\ resp.status = 201
    /\ resp.req.user = "a@x.com"
    /\ \E u \in users : u.email = "a@x.com" /\ u.numberOfPlanes = 2
    /\ SeedUser(2, "B", "b@x.com", "pw2", 2) \in users

---------------------------------------------------------------------------
(* Store calls that reject *)

GenericMessages ==
    {"Internal server error", "Error adding plane", "Error uploading profile image",
     "Error deleting account", "Error fetching planes"}

StoreOps ==
    {"register", "login", "profile", "add-plane", "upload-profile-image",
     "delete-account", "list"}

\* the step in which a store call of request r rejects: r is answered 500
\* with the fixed message of its handler and is over, the call is not made
\* again, the other requests and the process go on
StoreFailureAnswered ==
    resp'.err # ""
        => /\ resp'.status = 500
           /\ resp'.op \in StoreOps
           /\ resp'.message \in GenericMessages
           /\ \E r \in Slots :
                /\ reqs[r].pc # "idle" /\ resp'.req = reqs[r]
                /\ reqs' = [reqs EXCEPT ![r] = IdleReq]
           /\ server' = server /\ server.pc = "listening"
           /\ UNCHANGED <<users, nextId, issued, nreq>>
           /\ planes' \subseteq planes

\* the process ends only when the SIGINT handler has closed the connection
ExitsOnlyOnSigint ==
    server'.pc # server.pc => (server'.pc = "exited" /\ server.sigint = "closing")

\* C25: when a store operation fails inside a request handler, that request
\* is answered with a generic 500, the failed operation is not retried, and
\* the process keeps running and serving the other requests.
C25_StoreFailureAnswered ==
    /\ [][StoreFailureAnswered]_vars
    /\ [][ExitsOnlyOnSigint]_vars

\* C25 witness: a lookup of a list request has failed while another request
\* is in flight
C25_Witness ==
    /\ resp.err # "" /\ resp.op = "list" /\ resp.req.pc = "findOne"
    /\ \E q \in Slots : reqs[q].pc # "idle"

---------------------------------------------------------------------------
(* Counters and records *)

\* the records of the collection that an owner email has
RecordsOf(email) == {p \in planes : p.userId = email}

\* C27 (as claimed): in every state with no request in flight, each existing
\* User's numberOfPlanes equals the number of PlaneRecords of its email.
C27_CounterMatchesRecords ==
    Quiescent => \A u \in users : u.numberOfPlanes = Cardinality(RecordsOf(u.email))

\* C28 (as claimed): when add-plane answers 400 or 500, the collection holds
\* no record created by that request and the owner's counter is unchanged; a
\* record exists for a request only if the request was answered 201.
C28_ErrorLeavesNoRecord ==
    /\ (resp.op = "add-plane" /\ resp.stage = "handler" /\ resp.status \in {400, 500})
          => ~\E p \in planes : p.id = resp.req.planeId
    /\ (resp.op = "add-plane" /\ resp.stage = "handler"
        /\ \E p \in planes : p.id = resp.req.planeId)
          => resp.status = 201

\* C29 (as claimed): the username a list attaches to a record is "Unknown" or
\* the username of the account that created the record, never that of an
\* account registered later with the same email (an account that is older
\* than the record and still exists is the one that created it).
C29_UsernameOfCreator ==
    [][\A r \in Slots :
         (reqs[r].op = "list" /\ reqs[r].pc = "findOne" /\ reqs'[r] # reqs[r]
          /\ resp'.status # 500)
            => \A j \in JoinedAfter(r) \ reqs[r].joined :
                 \/ j.username = "Unknown"
                 \/ \E u \in users : /\ u.email = j.userId
                                      /\ u.username = j.username
                                      /\ u.id < j.id]_vars

---------------------------------------------------------------------------
(* Register, Login, add-plane, list: one after the other *)

\* the records of a list response that stand for the stored record p
Shown(p) == {j \in resp.list : j.id = p.id}

\* the list just answered shows every stored record of its airport once, with
\* the stored fields and the username of the registered owner
ListShowsRecords ==
    \A p \in planes :
        p.airport = resp.req.airport
            => /\ resp.status = 200
               /\ Shown(p) = {withUsername(p)}
               /\ withUsername(p).username = findOneUser(p.userId).username

\* C26 (as claimed): with the requests run one after the other, a registered
\* account logs in with its password and gets its username and a token, an
\* add-plane with a token of the account and airport X is answered 201, and a
\* list of X then shows the record exactly once with its fields and the
\* username of the account.
C26_EndToEnd ==
    /\ (resp.op = "login" /\ ~NonVerifying(resp.req.email, resp.req.password))
          => /\ resp.status = 200
             /\ resp.username = findOneUser(resp.req.email).username
             /\ IsAccessToken(resp.token)
    /\ (resp.op = "add-plane" /\ resp.stage = "handler")
          => /\ resp.status = 201
             /\ \E p \in planes : /\ p.id = resp.planeId
                                  /\ p.airport = resp.req.body.airport
                                  /\ p.userId = resp.req.user
    /\ resp.op = "list" => ListShowsRecords

\* the same for airports made of letters only
FlowHoldsForPlainAirport ==
    (resp.op = "list" /\ resp.req.airport = "LDZA") => ListShowsRecords

\* a list of LDZA shows a record added in this run under the username A
FlowSeen ==
    /\ resp.op = "list" /\ resp.status = 200
    /\ \E j \in resp.list : j.id >= 6 /\ j.username = "A" /\ j.airport = "LDZA"

---------------------------------------------------------------------------
(* One response for every request *)

\* a step sends at most one response; a request that arrives is answered at
\* once or takes a slot; a request leaves its slot exactly in the step that
\* answers it, so it is answered once
OneResponse ==
    /\ nreq' # nreq
         => /\ nreq' = nreq + 1
            /\ \/ resp'.status # 0 /\ reqs' = reqs
               \/ /\ resp' = NoResp
                  /\ \E r \in Slots : /\ reqs[r].pc = "idle" /\ reqs'[r].pc # "idle"
                                      /\ reqs' = [reqs EXCEPT ![r] = reqs'[r]]
    /\ \A r \in Slots :
         (reqs[r].pc # "idle" /\ reqs'[r] # reqs[r])
            => IF reqs'[r].pc = "idle"
               THEN resp'.status # 0 /\ resp'.req = reqs[r]
               ELSE resp' = NoResp /\ reqs'[r].op = reqs[r].op
    /\ (resp'.status # 0 /\ nreq' = nreq)
         => \E r \in Slots : /\ reqs[r].pc # "idle" /\ resp'.req = reqs[r]
                             /\ reqs' = [reqs EXCEPT ![r] = IdleReq]

\* C30: every accepted request eventually gets exactly one response on every
\* path through the gate and its handler (success, validation failure,
\* rejected token, store error), provided every store operation eventually
\* returns or fails; no path answers twice and none ends without an answer.
C30_ExactlyOneResponse ==
    /\ [][OneResponse]_vars
    /\ \A r \in Slots : (reqs[r].pc # "idle") ~> (reqs[r].pc = "idle")

\* C30 witness: an add-plane that passed the gate and the validation has been
\* answered after its second store call failed, with another request waiting
C30_Witness ==
    /\ resp.op = "add-plane" /\ resp.status = 500 /\ resp.req.pc = "updateOne"
    /\ \E q \in Slots : reqs[q].pc # "idle"

====
